---- MODULE Spec2Model ----
(***************************************************************************)
(* Model of format.py, the document formatter: extract_formatting_from_docx *)
(* builds a formatting dictionary from a reference document, and            *)
(* apply_formatting_to_docx classifies the target document's paragraphs     *)
(* with the answer of an external oracle and writes them, styled by role,   *)
(* into a new document.                                                     *)
(*                                                                          *)
(* Representation.  A Python str that the code searches, slices or splits   *)
(* (paragraph text, the oracle's answer, style names) is a sequence of      *)
(* one-character strings.  An optional value is None (the empty sequence)   *)
(* or Some(v).  Lengths are integers in EMU as in python-docx; a value in   *)
(* inches is carried as a whole number of 1/1440 inch and a value in points *)
(* as a whole number of points, so Inches, Pt, .inches and .pt are exact.   *)
(***************************************************************************)
EXTENDS Integers, Sequences, FiniteSets, TLC

VARIABLES
    pc,                    \* position in main(): "extract", "prepare", "oracle", "classify", "format", "done"
    reference_doc,         \* the reference document's object model
    target_doc,            \* the target document: its paragraphs' texts
    template_styles,       \* names of the styles docx.Document() comes with
    oracle,                \* what the chat completion call will do
    formatting_info,       \* result of extract_formatting_from_docx
    content,               \* the target's non-blank paragraphs
    new_doc,               \* the document under construction
    lines,                 \* the oracle's answer, lowered and split
    classified_paragraphs, \* content with a role per block
    i,                     \* index of the loop in progress
    errors,                \* number of st.error reports
    result                 \* what apply_formatting_to_docx returned

vars == <<pc, reference_doc, target_doc, template_styles, oracle, formatting_info,
          content, new_doc, lines, classified_paragraphs, i, errors, result>>

-----------------------------------------------------------------------------
(* Python values *)

None == <<>>

Some(v) == <<v>>

\* truth value of an optional number: None and 0 are false
TruthyNum(x) == x # None /\ x[1] # 0

\* truth value of an optional str kept as a TLA+ string: None and "" are false
TruthyStr(x) == x # None /\ x[1] # ""

SetMin(S) == CHOOSE m \in S : \A n \in S : m <= n

SetMax(S) == CHOOSE m \in S : \A n \in S : m >= n

Whitespace == {" ", "\t", "\n"}

\* str.strip()
Strip(s) ==
    LET keep == {k \in 1..Len(s) : s[k] \notin Whitespace}
    IN  IF keep = {} THEN <<>> ELSE SubSeq(s, SetMin(keep), SetMax(keep))

UpperCase == <<"A","B","C","D","E","F","G","H","I","J","K","L","M","N","O","P","Q","R","S","T","U","V","W","X","Y","Z">>

LowerCase == <<"a","b","c","d","e","f","g","h","i","j","k","l","m","n","o","p","q","r","s","t","u","v","w","x","y","z">>

\* the lower-case letter of each upper-case letter
LowerOf ==
    [c \in {UpperCase[k] : k \in 1..Len(UpperCase)} |->
        LowerCase[CHOOSE k \in 1..Len(UpperCase) : UpperCase[k] = c]]

LowerChar(c) == IF c \in DOMAIN LowerOf THEN LowerOf[c] ELSE c

\* str.lower()
Lower(s) == [k \in 1..Len(s) |-> LowerChar(s[k])]

\* sub in s
Contains(sub, s) ==
    \E k \in 0..(Len(s) - Len(sub)) : SubSeq(s, k + 1, k + Len(sub)) = sub

\* s[:n]
Slice(s, n) == SubSeq(s, 1, IF Len(s) < n THEN Len(s) ELSE n)

\* s.split("\n")
RECURSIVE Split(_)
Split(s) ==
    LET at == {k \in 1..Len(s) : s[k] = "\n"}
    IN  IF at = {} THEN <<s>>
        ELSE <<SubSeq(s, 1, SetMin(at) - 1)>> \o Split(SubSeq(s, SetMin(at) + 1, Len(s)))

\* docx.shared.Inches
Inches(v) == v * 635

\* Length.inches
InInches(length) == length \div 635

\* docx.shared.Pt
Pt(v) == v * 12700

\* Length.pt
InPt(length) == length \div 12700

-----------------------------------------------------------------------------
(* extract_formatting_from_docx *)

HeadingWordInStyle == <<"H","e","a","d","i","n","g">>

NormalName == <<"N","o","r","m","a","l">>

run_props(run) ==
    [text |-> run.text,
     bold |-> run.bold,
     italic |-> run.italic,
     underline |-> run.underline,
     font_name |-> run.font_name,
     font_size |-> IF TruthyNum(run.font_size) THEN Some(InPt(run.font_size[1])) ELSE None,
     color |-> IF run.color # None THEN run.color ELSE None]

RECURSIVE font_properties(_)
font_properties(runs) ==
    IF runs = <<>> THEN <<>>
    ELSE (IF Strip(Head(runs).text) # <<>> THEN <<run_props(Head(runs))>> ELSE <<>>)
         \o font_properties(Tail(runs))

style_info(para) ==
    [text |-> para.text,
     alignment |-> para.alignment,
     style_name |-> IF para.style # None THEN para.style[1] ELSE NormalName,
     font_properties |-> font_properties(para.runs)]

IsHeadingStyle(para) == para.style # None /\ Contains(HeadingWordInStyle, para.style[1])

RECURSIVE ExtractSamples(_, _)
ExtractSamples(paras, heading) ==
    IF paras = <<>> THEN <<>>
    ELSE (IF Strip(Head(paras).text) # <<>> /\ (IsHeadingStyle(Head(paras)) <=> heading)
          THEN <<style_info(Head(paras))>> ELSE <<>>)
         \o ExtractSamples(Tail(paras), heading)

table_info(table) ==
    [rows |-> table.rows,
     cols |-> table.cols,
     cell_styles |-> [k \in 1..Len(table.cells) |->
                        [text |-> table.cells[k].text,
                         vertical_alignment |-> table.cells[k].vertical_alignment]]]

overall_style(doc) ==
    [default_font |-> IF doc.normal # None THEN doc.normal[1].font_name ELSE None,
     default_font_size |-> IF doc.normal # None /\ TruthyNum(doc.normal[1].font_size)
                           THEN Some(InPt(doc.normal[1].font_size[1])) ELSE None,
     margins |-> [top |-> IF doc.sections # <<>> THEN Some(InInches(doc.sections[1].top_margin)) ELSE None,
                  bottom |-> IF doc.sections # <<>> THEN Some(InInches(doc.sections[1].bottom_margin)) ELSE None,
                  left |-> IF doc.sections # <<>> THEN Some(InInches(doc.sections[1].left_margin)) ELSE None,
                  right |-> IF doc.sections # <<>> THEN Some(InInches(doc.sections[1].right_margin)) ELSE None]]

extract_formatting_from_docx(doc) ==
    [paragraphs |-> ExtractSamples(doc.paragraphs, FALSE),
     headings |-> ExtractSamples(doc.paragraphs, TRUE),
     tables |-> [k \in 1..Len(doc.tables) |-> table_info(doc.tables[k])],
     overall_style |-> overall_style(doc)]

-----------------------------------------------------------------------------
(* apply_formatting_to_docx: the new document *)

\* page margins of the template docx.Document() opens (1 inch, 1.25 inch)
DefaultMargins == [top |-> 914400, bottom |-> 914400, left |-> 1143000, right |-> 1143000]

Heading1 == <<"H","e","a","d","i","n","g"," ","1">>

\* the setter of run.font.color.rgb is library code that may raise; these are
\* the colour values it raises on
RejectedColors == {"incompatible"}

\* new_doc.add_paragraph() followed by p.add_run(text)
NewParagraph(text) ==
    [text |-> text, style |-> None, alignment |-> None, bold |-> None, italic |-> None,
     font_name |-> None, font_size |-> None, color |-> None]

\* one side of "Set document-wide properties"
SetMargin(value, default) == IF TruthyNum(value) THEN Inches(value[1]) ELSE default

\* overall_style["margins"] always has its four keys, so the outer test of the
\* dictionary's truth value passes; each side is then tested on its own
SetMargins(margins) ==
    [top |-> SetMargin(margins.top, DefaultMargins.top),
     bottom |-> SetMargin(margins.bottom, DefaultMargins.bottom),
     left |-> SetMargin(margins.left, DefaultMargins.left),
     right |-> SetMargin(margins.right, DefaultMargins.right)]

\* content: the target's paragraphs whose text is not blank
RECURSIVE ExtractContent(_)
ExtractContent(paras) ==
    IF paras = <<>> THEN <<>>
    ELSE (IF Strip(Head(paras)) # <<>> THEN <<[type |-> "paragraph", text |-> Head(paras)]>> ELSE <<>>)
         \o ExtractContent(Tail(paras))

-----------------------------------------------------------------------------
(* apply_formatting_to_docx: parsing the oracle's answer *)

PrefixLen == 20

HeadingWord == <<"h","e","a","d","i","n","g">>

\* the response lines that contain the block's lowered prefix
MatchingLines(text, ls) ==
    {k \in 1..Len(ls) : Contains(Lower(Slice(text, PrefixLen)), Lower(ls[k]))}

LineSaysHeading(line) == Contains(HeadingWord, Lower(line))

\* faulty variant: an undetermined block defaults to heading
ClassificationDefaultHeading(idx, text, ls) ==
    LET found == MatchingLines(text, ls)
    IN  IF found # {}
        THEN (IF LineSaysHeading(ls[SetMin(found)]) THEN "heading" ELSE "body")
        ELSE IF idx < Len(ls)
             THEN (IF LineSaysHeading(ls[idx + 1]) THEN "heading" ELSE "body")
             ELSE "heading"

\* faulty variant: no break, the last matching line decides
ClassificationLastMatch(idx, text, ls) ==
    LET found == MatchingLines(text, ls)
    IN  IF found # {}
        THEN (IF LineSaysHeading(ls[SetMax(found)]) THEN "heading" ELSE "body")
        ELSE IF idx < Len(ls)
             THEN (IF LineSaysHeading(ls[idx + 1]) THEN "heading" ELSE "body")
             ELSE "body"

\* faulty variant: the index-based fallback is skipped
ClassificationNoPositional(idx, text, ls) ==
    LET found == MatchingLines(text, ls)
    IN  IF found # {}
        THEN (IF LineSaysHeading(ls[SetMin(found)]) THEN "heading" ELSE "body")
        ELSE "body"

\* classification of the block at Python index idx (position idx + 1)
Classification(idx, text, ls) ==
    LET found == MatchingLines(text, ls)
    IN  IF found # {}
        THEN (IF LineSaysHeading(ls[SetMin(found)]) THEN "heading" ELSE "body")
        ELSE IF idx < Len(ls)
             THEN (IF LineSaysHeading(ls[idx + 1]) THEN "heading" ELSE "body")
             ELSE "body"

-----------------------------------------------------------------------------
(* apply_formatting_to_docx: styling one block *)

\* try: run.font.color.rgb = color  except: pass
SetColor(p, color) ==
    IF color[1] \in RejectedColors THEN p ELSE [p EXCEPT !.color = color]

\* "Apply character formatting from reference"
ApplyFontProps(p, font_props) ==
    LET p1 == IF font_props.bold # None THEN [p EXCEPT !.bold = font_props.bold] ELSE p
        p2 == IF font_props.italic # None THEN [p1 EXCEPT !.italic = font_props.italic] ELSE p1
        p3 == IF TruthyStr(font_props.font_name)
              THEN [p2 EXCEPT !.font_name = font_props.font_name] ELSE p2
        p4 == IF TruthyNum(font_props.font_size)
              THEN [p3 EXCEPT !.font_size = Some(Pt(font_props.font_size[1]))] ELSE p3
    IN  IF font_props.color # None THEN SetColor(p4, font_props.color) ELSE p4

\* faulty variant: "Heading 1" is never tried
TryHeading1Never(p, styles, fallback) == fallback

\* try: p.style = "Heading 1"  except: fallback
TryHeading1(p, styles, fallback) ==
    IF Heading1 \in styles THEN [p EXCEPT !.style = Some(Heading1)] ELSE fallback

\* heading block, formatting_info["headings"] not empty
HeadingFromReference(text, ref_heading, styles) ==
    LET p  == NewParagraph(text)
        p1 == IF ref_heading.alignment # None
              THEN [p EXCEPT !.alignment = ref_heading.alignment] ELSE p
        p2 == IF ref_heading.style_name # <<>> /\ ref_heading.style_name \in styles
              THEN [p1 EXCEPT !.style = Some(ref_heading.style_name)]
              ELSE TryHeading1(p1, styles,
                               [p1 EXCEPT !.bold = Some(TRUE), !.font_size = Some(Pt(16))])
    IN  IF ref_heading.font_properties # <<>>
        THEN ApplyFontProps(p2, ref_heading.font_properties[1]) ELSE p2

\* heading block, no reference heading
HeadingDefault(text, styles) ==
    LET p == [NewParagraph(text) EXCEPT !.bold = Some(TRUE)]
    IN  TryHeading1(p, styles, [p EXCEPT !.font_size = Some(Pt(16))])

\* faulty variant: the body branch applies the sample's style name too
BodyFromReferenceStyled(text, ref_para) ==
    LET p  == NewParagraph(text)
        p1 == IF ref_para.alignment # None
              THEN [p EXCEPT !.alignment = ref_para.alignment] ELSE p
        p2 == IF ref_para.style_name # <<>> /\ ref_para.style_name \in template_styles
              THEN [p1 EXCEPT !.style = Some(ref_para.style_name)] ELSE p1
    IN  IF ref_para.font_properties # <<>>
        THEN ApplyFontProps(p2, ref_para.font_properties[1]) ELSE p2

\* body block, formatting_info["paragraphs"] not empty
BodyFromReference(text, ref_para) ==
    LET p  == NewParagraph(text)
        p1 == IF ref_para.alignment # None
              THEN [p EXCEPT !.alignment = ref_para.alignment] ELSE p
    IN  IF ref_para.font_properties # <<>>
        THEN ApplyFontProps(p1, ref_para.font_properties[1]) ELSE p1

\* body block, no reference paragraph: new_doc.add_paragraph(text)
BodyDefault(text) == NewParagraph(text)

\* faulty variant: a block whose text is already in the document is skipped
AddParagraphDedup(doc, p) ==
    IF \E k \in 1..Len(doc.paragraphs) : doc.paragraphs[k].text = p.text
    THEN doc ELSE [doc EXCEPT !.paragraphs = Append(@, p)]

AddParagraph(doc, p) == [doc EXCEPT !.paragraphs = Append(@, p)]

-----------------------------------------------------------------------------
(* main(): "Format Document" pressed with both documents loaded *)

\* formatting_info = extract_formatting_from_docx(reference_doc)
ExtractFormatting ==
    /\ pc = "extract"
    /\ formatting_info' = extract_formatting_from_docx(reference_doc)
    /\ pc' = "prepare"
    /\ UNCHANGED <<reference_doc, target_doc, template_styles, oracle, content, new_doc,
                   lines, classified_paragraphs, i, errors, result>>

\* apply_formatting_to_docx up to the oracle call: content, new_doc, margins.
\* The prompt built from content is read by the oracle alone, whose answer is
\* unconstrained, so it is not kept.
PrepareDocument ==
    /\ pc = "prepare"
    /\ content' = ExtractContent(target_doc)
    /\ new_doc' = [margins |-> SetMargins(formatting_info.overall_style.margins),
                   paragraphs |-> <<>>]
    /\ pc' = "oracle"
    /\ UNCHANGED <<reference_doc, target_doc, template_styles, oracle, formatting_info,
                   lines, classified_paragraphs, i, errors, result>>

\* the chat completion returns: lines = classifications.lower().split("\n")
OracleAnswers ==
    /\ pc = "oracle"
    /\ oracle.ok
    /\ lines' = Split(Lower(oracle.content))
    /\ classified_paragraphs' = <<>>
    /\ i' = 0
    /\ pc' = "classify"
    /\ UNCHANGED <<reference_doc, target_doc, template_styles, oracle, formatting_info,
                   content, new_doc, errors, result>>

\* faulty variant: the failure is reported and the run goes on without an answer
OracleFailsContinue ==
    /\ pc = "oracle"
    /\ ~oracle.ok
    /\ errors' = errors + 1
    /\ lines' = <<<<>>>>
    /\ classified_paragraphs' = <<>>
    /\ i' = 0
    /\ pc' = "classify"
    /\ UNCHANGED <<reference_doc, target_doc, template_styles, oracle, formatting_info,
                   content, new_doc, result>>

\* the chat completion raises: except Exception -> st.error, return None
OracleFails ==
    /\ pc = "oracle"
    /\ ~oracle.ok
    /\ errors' = errors + 1
    /\ result' = "None"
    /\ pc' = "done"
    /\ UNCHANGED <<reference_doc, target_doc, template_styles, oracle, formatting_info,
                   content, new_doc, lines, classified_paragraphs, i>>

\* one pass of "for i, item in enumerate(content)"
ClassifyBlock ==
    /\ pc = "classify"
    /\ i < Len(content)
    /\ classified_paragraphs' =
           Append(classified_paragraphs,
                  [type |-> Classification(i, content[i + 1].text, lines),
                   text |-> content[i + 1].text])
    /\ i' = i + 1
    /\ UNCHANGED <<pc, reference_doc, target_doc, template_styles, oracle, formatting_info,
                   content, new_doc, lines, errors, result>>

\* the classification loop is over; the formatting loop starts
StartFormatting ==
    /\ pc = "classify"
    /\ i = Len(content)
    /\ i' = 0
    /\ pc' = "format"
    /\ UNCHANGED <<reference_doc, target_doc, template_styles, oracle, formatting_info,
                   content, new_doc, lines, classified_paragraphs, errors, result>>

\* faulty variant: each heading block takes the sample at its own index
FormatHeadingPerBlockSample ==
    /\ pc = "format"
    /\ i < Len(classified_paragraphs)
    /\ classified_paragraphs[i + 1].type = "heading"
    /\ formatting_info.headings # <<>>
    /\ new_doc' = AddParagraph(new_doc,
                      HeadingFromReference(classified_paragraphs[i + 1].text,
                                           formatting_info.headings[(i % Len(formatting_info.headings)) + 1],
                                           template_styles))
    /\ i' = i + 1
    /\ UNCHANGED <<pc, reference_doc, target_doc, template_styles, oracle, formatting_info,
                   content, lines, classified_paragraphs, errors, result>>

FormatHeadingFromReference ==
    /\ pc = "format"
    /\ i < Len(classified_paragraphs)
    /\ classified_paragraphs[i + 1].type = "heading"
    /\ formatting_info.headings # <<>>
    /\ new_doc' = AddParagraph(new_doc,
                      HeadingFromReference(classified_paragraphs[i + 1].text,
                                           formatting_info.headings[1], template_styles))
    /\ i' = i + 1
    /\ UNCHANGED <<pc, reference_doc, target_doc, template_styles, oracle, formatting_info,
                   content, lines, classified_paragraphs, errors, result>>

FormatHeadingDefault ==
    /\ pc = "format"
    /\ i < Len(classified_paragraphs)
    /\ classified_paragraphs[i + 1].type = "heading"
    /\ formatting_info.headings = <<>>
    /\ new_doc' = AddParagraph(new_doc,
                      HeadingDefault(classified_paragraphs[i + 1].text, template_styles))
    /\ i' = i + 1
    /\ UNCHANGED <<pc, reference_doc, target_doc, template_styles, oracle, formatting_info,
                   content, lines, classified_paragraphs, errors, result>>

\* faulty variant: the colour is set outside try/except, so a rejected colour
\* reaches the outer handler
FormatBodyUnguardedColor ==
    /\ pc = "format"
    /\ i < Len(classified_paragraphs)
    /\ classified_paragraphs[i + 1].type # "heading"
    /\ formatting_info.paragraphs # <<>>
    /\ LET ref_para == formatting_info.paragraphs[1]
           rejected == /\ ref_para.font_properties # <<>>
                       /\ ref_para.font_properties[1].color # None
                       /\ ref_para.font_properties[1].color[1] \in RejectedColors
       IN  IF rejected
           THEN /\ errors' = errors + 1
                /\ result' = "None"
                /\ pc' = "done"
                /\ UNCHANGED <<new_doc, i>>
           ELSE /\ new_doc' = AddParagraph(new_doc,
                                  BodyFromReference(classified_paragraphs[i + 1].text, ref_para))
                /\ i' = i + 1
                /\ UNCHANGED <<pc, errors, result>>
    /\ UNCHANGED <<reference_doc, target_doc, template_styles, oracle, formatting_info,
                   content, lines, classified_paragraphs>>

FormatBodyFromReference ==
    /\ pc = "format"
    /\ i < Len(classified_paragraphs)
    /\ classified_paragraphs[i + 1].type # "heading"
    /\ formatting_info.paragraphs # <<>>
    /\ new_doc' = AddParagraph(new_doc,
                      BodyFromReference(classified_paragraphs[i + 1].text,
                                        formatting_info.paragraphs[1]))
    /\ i' = i + 1
    /\ UNCHANGED <<pc, reference_doc, target_doc, template_styles, oracle, formatting_info,
                   content, lines, classified_paragraphs, errors, result>>

FormatBodyDefault ==
    /\ pc = "format"
    /\ i < Len(classified_paragraphs)
    /\ classified_paragraphs[i + 1].type # "heading"
    /\ formatting_info.paragraphs = <<>>
    /\ new_doc' = AddParagraph(new_doc, BodyDefault(classified_paragraphs[i + 1].text))
    /\ i' = i + 1
    /\ UNCHANGED <<pc, reference_doc, target_doc, template_styles, oracle, formatting_info,
                   content, lines, classified_paragraphs, errors, result>>

\* return new_doc
ReturnDocument ==
    /\ pc = "format"
    /\ i = Len(classified_paragraphs)
    /\ result' = "document"
    /\ pc' = "done"
    /\ UNCHANGED <<reference_doc, target_doc, template_styles, oracle, formatting_info,
                   content, new_doc, lines, classified_paragraphs, i, errors>>

Next ==
    \/ ExtractFormatting
    \/ PrepareDocument
    \/ OracleAnswers
    \/ OracleFails
    \/ ClassifyBlock
    \/ StartFormatting
    \/ FormatHeadingFromReference
    \/ FormatHeadingDefault
    \/ FormatBodyFromReference
    \/ FormatBodyDefault
    \/ ReturnDocument

-----------------------------------------------------------------------------
(* inputs *)

MaxParas == 3

MaxLines == 2

MaxRefParas == 2

\* the sequences over S of length at most n
SeqsUpTo(S, n) == UNION {[1..k -> S] : k \in 0..n}

\* "\n".join(ls)
RECURSIVE JoinLines(_)
JoinLines(ls) ==
    IF ls = <<>> THEN <<>>
    ELSE IF Len(ls) = 1 THEN ls[1]
    ELSE ls[1] \o <<"\n">> \o JoinLines(Tail(ls))

\* runs of reference paragraphs
RunTitle ==
    [text |-> <<"T","i","t","l","e">>, bold |-> Some(TRUE), italic |-> None, underline |-> None,
     font_name |-> Some("Calibri"), font_size |-> Some(Pt(18)), color |-> Some("FF0000")]

RunOdd ==
    [text |-> <<"o","d","d">>, bold |-> Some(FALSE), italic |-> Some(TRUE), underline |-> Some(TRUE),
     font_name |-> Some(""), font_size |-> Some(0), color |-> Some("incompatible")]

RunBody ==
    [text |-> <<"b","o","d","y">>, bold |-> Some(FALSE), italic |-> Some(FALSE), underline |-> None,
     font_name |-> Some("Arial"), font_size |-> Some(Pt(11)), color |-> Some("0000FF")]

RunBlank ==
    [text |-> <<" ">>, bold |-> Some(TRUE), italic |-> Some(TRUE), underline |-> None,
     font_name |-> Some("Symbol"), font_size |-> Some(Pt(30)), color |-> Some("00FF00")]

\* paragraphs of reference documents: three headings, two bodies, one blank
RefParagraphs ==
    {[text |-> <<"T","i","t","l","e">>, alignment |-> Some(1), style |-> Some(Heading1), runs |-> <<RunTitle>>],
     [text |-> <<"L","i","n","k">>, alignment |-> None, style |-> Some(<<"C","u","s","t","o","m"," ","H","e","a","d","i","n","g">>), runs |-> <<>>],
     [text |-> <<"o","d","d">>, alignment |-> Some(0), style |-> Some(<<"H","e","a","d","i","n","g"," ","2">>),
      runs |-> <<RunBlank, RunOdd, RunTitle>>],
     [text |-> <<"b","o","d","y">>, alignment |-> Some(3), style |-> Some(<<"Q","u","o","t","e">>), runs |-> <<RunBody>>],
     [text |-> <<"o","d","d">>, alignment |-> None, style |-> None, runs |-> <<RunOdd, RunBody>>],
     [text |-> <<" ">>, alignment |-> Some(2), style |-> Some(Heading1), runs |-> <<RunBlank>>]}

RefSection == [top_margin |-> 914400, bottom_margin |-> 914400,
               left_margin |-> 914400, right_margin |-> 914400]

MarginLengths == {0, 457200, 1371600}

RefSections ==
    {<<>>}
    \cup {<<s>> : s \in [top_margin : MarginLengths, bottom_margin : MarginLengths,
                          left_margin : MarginLengths, right_margin : MarginLengths]}
    \cup {<<[RefSection EXCEPT !.top_margin = 0], RefSection>>}

RefTables ==
    {<<>>,
     <<[rows |-> 1, cols |-> 2,
        cells |-> <<[text |-> <<"a">>, vertical_alignment |-> None],
                    [text |-> <<"b">>, vertical_alignment |-> Some(1)]>>]>>}

RefNormalStyles ==
    {None,
     Some([font_name |-> None, font_size |-> None]),
     Some([font_name |-> Some("Calibri"), font_size |-> Some(Pt(11))])}

\* the styles of the new document's template
TemplateStyleSets ==
    {{NormalName, <<"Q","u","o","t","e">>} \cup S : S \in SUBSET {Heading1, <<"C","u","s","t","o","m"," ","H","e","a","d","i","n","g">>}}

\* a reference with a heading and a body paragraph, and one without text
RefScenarioA ==
    [paragraphs |-> <<[text |-> <<"T","i","t","l","e">>, alignment |-> Some(1), style |-> Some(Heading1),
                       runs |-> <<RunTitle>>],
                      [text |-> <<"b","o","d","y">>, alignment |-> Some(3), style |-> Some(<<"Q","u","o","t","e">>),
                       runs |-> <<RunBody>>]>>,
     tables |-> <<>>, sections |-> <<RefSection>>, normal |-> None]

RefEmpty == [paragraphs |-> <<>>, tables |-> <<>>, sections |-> <<RefSection>>, normal |-> None]

\* texts of target paragraphs: shorter and longer than 20 characters, one blank
TargetTexts ==
    {<<"I","n","t","r","o">>,
     <<"T","h","e"," ","q","u","i","c","k"," ","b","r","o","w","n"," ","f","o","x"," ","s","l","e","e","p","s">>,
     <<" "," ">>}

\* lines of oracle answers
ResponseLines ==
    {<<"I","N","T","R","O",":"," ","H","e","a","d","i","n","g">>,
     <<"i","n","t","r","o"," ","-"," ","b","o","d","y">>,
     <<"T","h","e"," ","Q","u","i","c","k"," ","B","r","o","w","n"," ","F","o","x"," ","j","u","m","p","s",":"," ","b","o","d","y">>,
     <<"t","h","e"," ","q","u","i","c","k"," ","b","r","o","w","n"," ","f","o","x",":"," ","h","e","a","d","i","n","g">>}

Answers(lineSet) ==
    {[ok |-> FALSE, content |-> <<>>]}
    \cup {[ok |-> TRUE, content |-> JoinLines(ls)] : ls \in SeqsUpTo(lineSet, MaxLines)}

\* everything an input does not set
InitRest ==
    /\ pc = "extract"
    /\ formatting_info = None
    /\ content = <<>>
    /\ new_doc = None
    /\ lines = <<>>
    /\ classified_paragraphs = <<>>
    /\ i = 0
    /\ errors = 0
    /\ result = "pending"

\* many targets and answers, two references
Init ==
    /\ reference_doc \in {RefEmpty, RefScenarioA}
    /\ template_styles = {NormalName, <<"Q","u","o","t","e">>, Heading1}
    /\ target_doc \in SeqsUpTo(TargetTexts, MaxParas)
    /\ oracle \in Answers(ResponseLines)
    /\ InitRest

\* many reference paragraphs and templates
InitSamples ==
    /\ reference_doc \in {[RefEmpty EXCEPT !.paragraphs = ps] : ps \in SeqsUpTo(RefParagraphs, MaxRefParas)}
    /\ template_styles \in TemplateStyleSets
    /\ target_doc \in SeqsUpTo({<<"I","n","t","r","o">>}, MaxParas)
    /\ oracle \in Answers({<<"h","e","a","d","i","n","g">>})
    /\ InitRest

\* many page layouts
InitLayout ==
    /\ reference_doc \in {[RefScenarioA EXCEPT !.sections = ss, !.tables = ts, !.normal = n] :
                             ss \in RefSections, ts \in RefTables, n \in RefNormalStyles}
    /\ template_styles = {NormalName, <<"Q","u","o","t","e">>, Heading1}
    /\ target_doc = <<<<"I","n","t","r","o">>>>
    /\ oracle \in Answers({<<"h","e","a","d","i","n","g">>})
    /\ InitRest

Spec == Init /\ [][Next]_vars

SpecStyle == (InitSamples \/ InitLayout) /\ [][Next]_vars

-----------------------------------------------------------------------------
(* vocabulary of the properties *)

\* the lines of the oracle's answer as it was sent, each in lower case
LoweredLinesOf(answer) ==
    LET sent == Split(answer.content)
    IN  [n \in 1..Len(sent) |-> Lower(sent[n])]

\* the first 20 characters of a text, the whole text when shorter
First20(text) == IF Len(text) <= 20 THEN text ELSE SubSeq(text, 1, 20)

\* the lowered line contains "heading"
SaysHeading(lowered) == Contains(HeadingWord, lowered)

RoleBy(lowered) == IF SaysHeading(lowered) THEN "heading" ELSE "body"

\* the lines, among the lowered ones, that contain the text's first 20
\* characters whatever the case
NamingLines(lowered, text) ==
    LET prefix == Lower(First20(text))
    IN  {n \in 1..Len(lowered) : Contains(prefix, lowered[n])}

NonBlank(text) == \E k \in 1..Len(text) : text[k] \notin Whitespace

Returned == pc = "done" /\ result = "document"

\* the blocks written to the new document so far
Written == IF new_doc = None THEN {} ELSE 1..Len(new_doc.paragraphs)

HeadingBlocks == {k \in Written : classified_paragraphs[k].type = "heading"}

BodyBlocks == {k \in Written : classified_paragraphs[k].type = "body"}

\* the first run of a sample, if it has one
FirstRun(sample) ==
    IF sample.font_properties = <<>> THEN None ELSE Some(sample.font_properties[1])

\* the sample's first run sets a colour the new document rejects
ColorRejected(sample) ==
    /\ FirstRun(sample) # None
    /\ FirstRun(sample)[1].color # None
    /\ FirstRun(sample)[1].color[1] \in RejectedColors

\* the run properties of p are those of the sample's first run laid over base
RunPropsOver(p, sample, base) ==
    LET run == FirstRun(sample)
    IN  IF run = None
        THEN /\ p.bold = base.bold /\ p.italic = base.italic /\ p.font_name = base.font_name
             /\ p.font_size = base.font_size /\ p.color = base.color
        ELSE /\ p.bold = (IF run[1].bold # None THEN run[1].bold ELSE base.bold)
             /\ p.italic = (IF run[1].italic # None THEN run[1].italic ELSE base.italic)
             /\ p.font_name \in {run[1].font_name, base.font_name}
             /\ (run[1].font_name \notin {None, Some("")} => p.font_name = run[1].font_name)
             /\ (run[1].font_size \notin {None, Some(0)}
                    => p.font_size = Some(run[1].font_size[1] * 12700))
             /\ (run[1].font_size \in {None, Some(0)} => p.font_size = base.font_size)
             /\ p.color \in {run[1].color, base.color}
             /\ (run[1].color # None /\ run[1].color[1] \notin RejectedColors
                    => p.color = run[1].color)

Plain == [bold |-> None, italic |-> None, font_name |-> None, font_size |-> None, color |-> None]

BoldLarge == [Plain EXCEPT !.bold = Some(TRUE), !.font_size = Some(16 * 12700)]

-----------------------------------------------------------------------------
(* properties *)

\* C1: if the oracle call raises, the run aborts: apply_formatting_to_docx
\* returns None, exactly one error is reported, and no block is classified
\* or written to a document.
OracleFailureAborts ==
    ~oracle.ok =>
        /\ classified_paragraphs = <<>>
        /\ Written = {}
        /\ result # "document"
        /\ (pc = "done" => result = "None" /\ errors = 1)

OracleFailureWitness == pc = "done" /\ ~oracle.ok /\ Len(content) >= 2

\* C2: a block at index i whose first 20 characters no response line contains,
\* and for which the response has no line at index i, is given the role body.
RoleFallback ==
    LET answer == LoweredLinesOf(oracle)
    IN  \A k \in 1..Len(classified_paragraphs) :
            (k > Len(answer) /\ NamingLines(answer, classified_paragraphs[k].text) = {})
                => classified_paragraphs[k].type = "body"

RoleFallbackWitness ==
    /\ Returned
    /\ LET answer == LoweredLinesOf(oracle)
       IN  \E k \in 1..Len(classified_paragraphs) :
              /\ k > Len(answer)
              /\ NamingLines(answer, classified_paragraphs[k].text) = {}
              /\ SaysHeading(answer[Len(answer)])

\* C3: a returned document's paragraph texts are exactly the texts of the
\* target's non-blank paragraphs, in the target's order.
OrderPreserved ==
    Returned =>
        [k \in 1..Len(new_doc.paragraphs) |-> new_doc.paragraphs[k].text]
            = SelectSeq(target_doc, NonBlank)

OrderPreservedWitness ==
    /\ Returned
    /\ Len(new_doc.paragraphs) = 2
    /\ Len(target_doc) = 3
    /\ new_doc.paragraphs[1].text # new_doc.paragraphs[2].text
    /\ classified_paragraphs[1].type # classified_paragraphs[2].type

\* C4: each margin the profile holds, whatever its value, is the new
\* document's margin on that side; an absent one leaves the default.
MarginApplication ==
    Returned =>
        LET held == formatting_info.overall_style.margins
        IN  /\ new_doc.margins.top = (IF held.top # None THEN held.top[1] * 635 ELSE DefaultMargins.top)
            /\ new_doc.margins.bottom = (IF held.bottom # None THEN held.bottom[1] * 635 ELSE DefaultMargins.bottom)
            /\ new_doc.margins.left = (IF held.left # None THEN held.left[1] * 635 ELSE DefaultMargins.left)
            /\ new_doc.margins.right = (IF held.right # None THEN held.right[1] * 635 ELSE DefaultMargins.right)

\* C5: a colour the new document rejects does not stop the run: the document
\* is returned with every block, the run's colour stays unset, no error is
\* reported.
ColorFailureNonFatal ==
    /\ \A k \in HeadingBlocks :
          (formatting_info.headings # <<>> /\ ColorRejected(formatting_info.headings[1]))
              => new_doc.paragraphs[k].color = None
    /\ \A k \in BodyBlocks :
          (formatting_info.paragraphs # <<>> /\ ColorRejected(formatting_info.paragraphs[1]))
              => new_doc.paragraphs[k].color = None
    /\ (pc = "done" /\ oracle.ok) =>
          /\ result = "document"
          /\ errors = 0
          /\ Len(new_doc.paragraphs) = Len(content)

ColorFailureWitness ==
    /\ Returned
    /\ \E k \in HeadingBlocks :
          formatting_info.headings # <<>> /\ ColorRejected(formatting_info.headings[1])
    /\ \E k \in BodyBlocks :
          formatting_info.paragraphs # <<>> /\ ColorRejected(formatting_info.paragraphs[1])

\* C6: with heading samples, all heading blocks of a run carry the same style
\* name, alignment and run properties, those of the first sample.
HeadingUniformity ==
    formatting_info # None /\ formatting_info.headings # <<>> =>
        /\ \A j, k \in HeadingBlocks :
              [new_doc.paragraphs[j] EXCEPT !.text = <<>>]
                  = [new_doc.paragraphs[k] EXCEPT !.text = <<>>]
        /\ \A k \in HeadingBlocks :
              /\ new_doc.paragraphs[k].alignment = formatting_info.headings[1].alignment
              /\ new_doc.paragraphs[k].italic =
                     (IF FirstRun(formatting_info.headings[1]) = None THEN None
                      ELSE FirstRun(formatting_info.headings[1])[1].italic)

HeadingUniformityWitness ==
    /\ Returned
    /\ Cardinality(HeadingBlocks) >= 2
    /\ Len(formatting_info.headings) >= 2
    /\ formatting_info.headings[1].alignment # formatting_info.headings[2].alignment

\* C7: when some response line contains a block's first 20 characters, the
\* first such line alone decides the role: heading iff it contains "heading".
PrefixMatching ==
    LET answer == LoweredLinesOf(oracle)
    IN  \A k \in 1..Len(classified_paragraphs) :
            LET naming == NamingLines(answer, classified_paragraphs[k].text)
            IN  naming # {} =>
                    classified_paragraphs[k].type = RoleBy(answer[SetMin(naming)])

PrefixMatchingWitness ==
    /\ Returned
    /\ LET answer == LoweredLinesOf(oracle)
       IN  \E k \in 1..Len(classified_paragraphs) :
              LET naming == NamingLines(answer, classified_paragraphs[k].text)
              IN  /\ naming # {}
                  /\ Len(classified_paragraphs[k].text) > 20
                  /\ k <= Len(answer)
                  /\ SetMin(naming) # k
                  /\ RoleBy(answer[k]) # RoleBy(answer[SetMin(naming)])

\* C8: when no response line contains a block's first 20 characters and the
\* response has a line at the block's index, that line decides the role.
PositionalFallback ==
    LET answer == LoweredLinesOf(oracle)
    IN  \A k \in 1..Len(classified_paragraphs) :
            (k <= Len(answer) /\ NamingLines(answer, classified_paragraphs[k].text) = {})
                => classified_paragraphs[k].type = RoleBy(answer[k])

PositionalFallbackWitness ==
    /\ Returned
    /\ LET answer == LoweredLinesOf(oracle)
       IN  \E k \in 2..Len(classified_paragraphs) :
              /\ k <= Len(answer)
              /\ NamingLines(answer, classified_paragraphs[k].text) = {}
              /\ classified_paragraphs[k].type = "heading"

\* C9: a heading block gets the first sample's style if the new document has
\* it, else "Heading 1", else bold 16pt, with the sample's first run laid on
\* top; without samples it is bold with "Heading 1", else bold 16pt.  The
\* block is always written and the run returns the document.
HeadingFallbackChain ==
    /\ \A k \in HeadingBlocks :
          LET p == new_doc.paragraphs[k]
              samples == formatting_info.headings
          IN  IF samples # <<>>
              THEN IF samples[1].style_name \in template_styles
                   THEN p.style = Some(samples[1].style_name) /\ RunPropsOver(p, samples[1], Plain)
                   ELSE IF Heading1 \in template_styles
                        THEN p.style = Some(Heading1) /\ RunPropsOver(p, samples[1], Plain)
                        ELSE p.style = None /\ RunPropsOver(p, samples[1], BoldLarge)
              ELSE /\ p.bold = Some(TRUE)
                   /\ p.italic = None /\ p.font_name = None /\ p.color = None /\ p.alignment = None
                   /\ IF Heading1 \in template_styles
                      THEN p.style = Some(Heading1) /\ p.font_size = None
                      ELSE p.style = None /\ p.font_size = Some(16 * 12700)
    /\ (pc = "done" /\ oracle.ok) =>
          /\ result = "document"
          /\ \A k \in 1..Len(classified_paragraphs) :
                classified_paragraphs[k].type = "heading" => k \in HeadingBlocks

HeadingFallbackWitness ==
    /\ Returned
    /\ \E k \in HeadingBlocks :
          /\ formatting_info.headings # <<>>
          /\ new_doc.paragraphs[k].style = None
          /\ new_doc.paragraphs[k].bold = Some(FALSE)
          /\ new_doc.paragraphs[k].font_size = Some(16 * 12700)

\* C10 as stated: a body block is styled like a heading block from the first
\* paragraph sample, style name included when the new document has that style.
BodyIdenticalProcedure ==
    \A k \in BodyBlocks :
        LET p == new_doc.paragraphs[k]
            samples == formatting_info.paragraphs
        IN  IF samples # <<>>
            THEN /\ p.alignment = samples[1].alignment
                 /\ RunPropsOver(p, samples[1], Plain)
                 /\ IF samples[1].style_name \in template_styles
                    THEN (IF p.style = None THEN NormalName ELSE p.style[1]) = samples[1].style_name
                    ELSE p.style = None
            ELSE p = NewParagraph(p.text)

\* C10 amended: a body block takes alignment and first-run properties from
\* the first paragraph sample and never an explicit style; without samples it
\* is plain.
BodyFormatting ==
    \A k \in BodyBlocks :
        LET p == new_doc.paragraphs[k]
            samples == formatting_info.paragraphs
        IN  /\ p.style = None
            /\ IF samples # <<>>
               THEN p.alignment = samples[1].alignment /\ RunPropsOver(p, samples[1], Plain)
               ELSE p = NewParagraph(p.text)

BodyFormattingWitness ==
    /\ Returned
    /\ \E k \in BodyBlocks :
          /\ formatting_info.paragraphs # <<>>
          /\ formatting_info.paragraphs[1].style_name = <<"Q","u","o","t","e">>
          /\ formatting_info.paragraphs[1].style_name \in template_styles
          /\ new_doc.paragraphs[k].style = None
          /\ new_doc.paragraphs[k].color = Some("0000FF")

====
